---- MODULE Spec2Model ----
(***************************************************************************)
(* A model of src/main.py: the WebCrawler class (crawl, search) together   *)
(* with the parts of requests / urllib.parse it relies on.                 *)
(*                                                                         *)
(* Strings are sequences of tokens; a token is a fragment of the string    *)
(* ("https:", "/", "example.com", "about", ...).  No token is a prefix of  *)
(* another one, so str.startswith on the Python strings is exactly the     *)
(* prefix relation on the token sequences.                                 *)
(***************************************************************************)
EXTENDS Naturals, Sequences, FiniteSets, TLC

VARIABLES
    visited,    \* self.visited: set of URL strings
    index,      \* self.index: insertion-ordered dict, a sequence of [url, text]
    stack,      \* the Python call stack of crawl frames, innermost frame first
    output,     \* what has been written to sys.stdout, one entry per line
    requested,  \* the URLs requests.get was called with, in call order
    web,        \* what each requested URL answered: URL -> response or error
    results,    \* the list returned by the last search call
    topcall,    \* the arguments of the last top-level crawl call
    ncalls,     \* number of top-level crawl calls made so far
    printed     \* the argument of the last print_results call

vars == <<visited, index, stack, output, requested, web, results, topcall, ncalls, printed>>

----------------------------------------------------------------------------
(* Bounds of the model *)

\* top-level crawl calls made on the one WebCrawler instance
MaxCalls == 2

\* anchors (<a> elements) in all the served documents together
MaxAnchors == 4

\* print_results calls made on the instance
MaxPrints == 1

----------------------------------------------------------------------------
(* Strings *)

StartsWith(s, p) == Len(p) <= Len(s) /\ SubSeq(s, 1, Len(p)) = p

Range(s) == {s[i] : i \in 1..Len(s)}

\* s[n:] of Python (0-based n)
Drop(s, n) == SubSeq(s, n + 1, Len(s))

\* index of the first "/" token of s, Len(s)+1 when there is none
FirstSlash(s) ==
    IF \E i \in 1..Len(s) : s[i] = "/"
    THEN CHOOSE i \in 1..Len(s) : s[i] = "/" /\ \A j \in 1..(i - 1) : s[j] # "/"
    ELSE Len(s) + 1

----------------------------------------------------------------------------
(* urllib.parse, on the URLs and hrefs of the model: an optional "https:"  *)
(* scheme, an optional "//" netloc, a path of "/" and name tokens.         *)

HTTPS == <<"https:">>
SLASHES == <<"/", "/">>

\* urlsplit: the scheme, when the string starts with one
scheme(s) == IF Len(s) >= 1 /\ s[1] = "https:" THEN HTTPS ELSE <<>>

\* urlsplit: what follows the scheme
afterScheme(s) == Drop(s, Len(scheme(s)))

\* urlsplit: url[:2] == '//' after the scheme
hasSlashes(s) == StartsWith(afterScheme(s), SLASHES)

\* urlsplit: the netloc runs from the "//" to the next "/"
netloc(s) ==
    IF hasSlashes(s)
    THEN LET t == Drop(afterScheme(s), 2) IN SubSeq(t, 1, FirstSlash(t) - 1)
    ELSE <<>>

\* urlsplit: the path is what follows the netloc
path(s) ==
    IF hasSlashes(s)
    THEN LET t == Drop(afterScheme(s), 2) IN Drop(t, FirstSlash(t) - 1)
    ELSE afterScheme(s)

\* urlsplit raises ValueError("Invalid IPv6 URL") on an unbalanced bracket
\* in the netloc
urlparseRaises(s) == ("[" \in Range(netloc(s))) # ("]" \in Range(netloc(s)))

\* index of the last "/" token of s, 0 when there is none
LastSlash(s) ==
    IF \E i \in 1..Len(s) : s[i] = "/"
    THEN CHOOSE i \in 1..Len(s) : s[i] = "/" /\ \A j \in (i + 1)..Len(s) : s[j] # "/"
    ELSE 0

\* urljoin(base, url) for a url without a netloc: the scheme and netloc of
\* base, then url itself when it is an absolute path, else url in the
\* directory of base's path
urljoin(base, url) ==
    IF scheme(url) # <<>> /\ scheme(url) # scheme(base) THEN url
    ELSE LET p == path(url)
             dir == IF path(base) = <<>> THEN <<"/">>
                    ELSE SubSeq(path(base), 1, LastSlash(path(base)))
         IN  scheme(base) \o SLASHES \o netloc(base) \o
             (IF p = <<>> THEN path(base)
              ELSE IF p[1] = "/" THEN p
              ELSE dir \o p)

----------------------------------------------------------------------------
(* The dict self.index and str.lower / the "in" test of search *)

\* the keys of the dict, in insertion order
Keys(d) == [i \in 1..Len(d) |-> d[i].url]

HasKey(d, u) == \E i \in 1..Len(d) : d[i].url = u

\* d[u] = t where a new key goes to the front
SetItemFront(d, u, t) ==
    IF HasKey(d, u)
    THEN [i \in 1..Len(d) |-> IF d[i].url = u THEN [url |-> u, text |-> t] ELSE d[i]]
    ELSE <<[url |-> u, text |-> t]>> \o d

\* d[u] = t: a new key goes to the end, an existing key keeps its place
SetItem(d, u, t) ==
    IF HasKey(d, u)
    THEN [i \in 1..Len(d) |-> IF d[i].url = u THEN [url |-> u, text |-> t] ELSE d[i]]
    ELSE Append(d, [url |-> u, text |-> t])

\* str.lower, on the characters of the model's page texts and keywords
lowerChar(c) ==
    CASE c = "K" -> "k"
      [] c = "W" -> "w"
      [] OTHER -> c

\* no case folding
lowerNot(s) == s

lower(s) == [i \in 1..Len(s) |-> lowerChar(s[i])]

\* "a in b" of two Python strings: a occurs in b as a substring
In(a, b) == \E i \in 0..(Len(b) - Len(a)) : SubSeq(b, i + 1, i + Len(a)) = a

\* the entries of d that search keeps, in the order of d
RECURSIVE matches(_, _)
matches(d, keyword) ==
    IF d = <<>> THEN <<>>
    ELSE (IF In(lower(keyword), lower(Head(d).text)) THEN <<Head(d).url>> ELSE <<>>)
         \o matches(Tail(d), keyword)

\* WebCrawler.search(keyword)
search(keyword) == matches(index, keyword)

----------------------------------------------------------------------------
(* The environment: what requests.get answers *)

\* an optional argument: None, or a given string
None == [given |-> FALSE, val |-> <<>>]
Given(s) == [given |-> TRUE, val |-> s]

SeqsUpTo(S, n) == UNION {[1..k -> S] : k \in 0..n}

RECURSIVE AnchorCount(_)
AnchorCount(urls) ==
    IF urls = {} THEN 0
    ELSE LET u == CHOOSE x \in urls : TRUE
         IN  Len(web[u].anchors) + AnchorCount(urls \ {u})

\* the anchors of all the documents served so far
AnchorsServed == AnchorCount(DOMAIN web)

\* requests.get(url) raised a RequestException whose message is e
Raised(e) == [raised |-> TRUE, error |-> e, status |-> 0, text |-> <<>>, anchors |-> <<>>]

\* requests.get(url) returned a response: its status code, and its body as
\* BeautifulSoup reads it, the text of get_text() and the href of each <a>
\* in document order (<<>> for an <a> with no or an empty href)
Returned(st, t, a) == [raised |-> FALSE, error |-> "", status |-> st, text |-> t, anchors |-> a]

\* what a URL not requested before may answer, given the inputs I: the
\* documents served hold I.anchors anchors at most
Responses(I) ==
    {Raised(e) : e \in I.errors} \cup
    {Returned(st, t, a) : st \in I.statuses, t \in I.texts,
                          a \in SeqsUpTo(I.hrefs, I.anchors - AnchorsServed)}

\* what requests.get(url) answers: a URL answers the same every time
Answers(I, url) == IF url \in DOMAIN web THEN {web[url]} ELSE Responses(I)

Record(url, r) == [u \in DOMAIN web \cup {url} |-> IF u = url THEN r ELSE web[u]]

----------------------------------------------------------------------------
(* WebCrawler *)

NoCall == [url |-> <<>>, base_url |-> None]
NoResults == [called |-> FALSE, keyword |-> <<>>, urls |-> <<>>]
NoPrint == [called |-> FALSE, results |-> <<>>]

\* __init__
Init ==
    /\ visited = {}
    /\ index = <<>>
    /\ stack = <<>>
    /\ output = <<>>
    /\ requested = <<>>
    /\ web = <<>>
    /\ results = NoResults
    /\ topcall = NoCall
    /\ ncalls = 0
    /\ printed = NoPrint

Frame(url, base_url) == [url |-> url, base_url |-> base_url, pc |-> "get", links |-> <<>>]

\* base = url: the scope base taken from the page, whatever base_url is
basePage(f) == f.url

\* base = base_url or url: None and "" are both falsy
base(f) == IF f.base_url.given /\ f.base_url.val # <<>> THEN f.base_url.val ELSE f.url

\* full_url.startswith(base), with the arguments swapped
inScopeSwapped(url, f) == StartsWith(base(f), url)

\* full_url.startswith(base)
inScope(url, f) == StartsWith(url, base(f))

\* print(f"Error crawling {url}: {e}")
ErrorLine(url, e) == <<"Error crawling ", url, ": ", e>>

\* the head of crawl without self.visited.add(url)
enterNoMark(url, base_url, callers) ==
    IF url \in visited
    THEN /\ visited' = visited
         /\ stack' = callers
    ELSE /\ visited' = visited
         /\ stack' = <<Frame(url, base_url)>> \o callers

\* the head of crawl, where a visited url leaves the caller at the same link
enterSameLink(url, base_url, callers) ==
    IF url \in visited
    THEN /\ visited' = visited
         /\ stack' = stack
    ELSE /\ visited' = visited \cup {url}
         /\ stack' = <<Frame(url, base_url)>> \o callers

\* the head of crawl, returning at once only on a url that has an index entry:
\* a url whose fetch failed is taken up again
enterRetryFailed(url, base_url, callers) ==
    IF url \in visited /\ HasKey(index, url)
    THEN /\ visited' = visited
         /\ stack' = callers
    ELSE /\ visited' = visited \cup {url}
         /\ stack' = <<Frame(url, base_url)>> \o callers

\* the head of crawl: return at once on a visited url, else mark it visited
\* and go on to the try block; callers are the frames below
enter(url, base_url, callers) ==
    IF url \in visited
    THEN /\ visited' = visited
         /\ stack' = callers
    ELSE /\ visited' = visited \cup {url}
         /\ stack' = <<Frame(url, base_url)>> \o callers

\* a caller (a test, main) calls crawler.crawl(url) or crawl(url, base_url)
CrawlCall(I) ==
    /\ stack = <<>>
    /\ ncalls < MaxCalls
    /\ \E url \in I.seeds, b \in I.bases :
          /\ topcall' = [url |-> url, base_url |-> b]
          /\ enter(url, b, <<>>)
    /\ ncalls' = ncalls + 1
    /\ results' = NoResults
    /\ UNCHANGED <<index, output, requested, web, printed>>

\* the except clause also takes url out of self.visited, so that it is retried
GetRaisesUnmark(I) ==
    /\ stack # <<>>
    /\ Head(stack).pc = "get"
    /\ LET f == Head(stack) IN
       \E r \in Answers(I, f.url) :
          /\ r.raised
          /\ requested' = Append(requested, f.url)
          /\ web' = Record(f.url, r)
          /\ output' = Append(output, ErrorLine(f.url, r.error))
          /\ stack' = Tail(stack)
          /\ visited' = visited \ {f.url}
    /\ UNCHANGED <<index, results, topcall, ncalls, printed>>

\* the except clause reads self.index[url], and the defaultdict makes an entry
GetRaisesIndexed(I) ==
    /\ stack # <<>>
    /\ Head(stack).pc = "get"
    /\ LET f == Head(stack) IN
       \E r \in Answers(I, f.url) :
          /\ r.raised
          /\ requested' = Append(requested, f.url)
          /\ web' = Record(f.url, r)
          /\ output' = Append(output, ErrorLine(f.url, r.error))
          /\ stack' = Tail(stack)
          /\ index' = SetItem(index, f.url, <<>>)
    /\ UNCHANGED <<visited, results, topcall, ncalls, printed>>

\* requests.get(url) raises: the except clause prints and crawl returns
GetRaises(I) ==
    /\ stack # <<>>
    /\ Head(stack).pc = "get"
    /\ LET f == Head(stack) IN
       \E r \in Answers(I, f.url) :
          /\ r.raised
          /\ requested' = Append(requested, f.url)
          /\ web' = Record(f.url, r)
          /\ output' = Append(output, ErrorLine(f.url, r.error))
          /\ stack' = Tail(stack)
    /\ UNCHANGED <<visited, index, results, topcall, ncalls, printed>>

\* the text of the response is stored under the scope base: self.index[base]
GetReturnsKeyBase(I) ==
    /\ stack # <<>>
    /\ Head(stack).pc = "get"
    /\ LET f == Head(stack) IN
       \E r \in Answers(I, f.url) :
          /\ ~r.raised
          /\ requested' = Append(requested, f.url)
          /\ web' = Record(f.url, r)
          /\ index' = SetItem(index, base(f), r.text)
          /\ stack' = <<[f EXCEPT !.pc = "links", !.links = r.anchors]>> \o Tail(stack)
    /\ UNCHANGED <<visited, output, results, topcall, ncalls, printed>>

\* requests.get(url) returns a response, of whatever status: its text is
\* indexed and the loop over its anchors begins
GetReturns(I) ==
    /\ stack # <<>>
    /\ Head(stack).pc = "get"
    /\ LET f == Head(stack) IN
       \E r \in Answers(I, f.url) :
          /\ ~r.raised
          /\ requested' = Append(requested, f.url)
          /\ web' = Record(f.url, r)
          /\ index' = SetItem(index, f.url, r.text)
          /\ stack' = <<[f EXCEPT !.pc = "links", !.links = r.anchors]>> \o Tail(stack)
    /\ UNCHANGED <<visited, output, results, topcall, ncalls, printed>>

\* full_url with the href joined to the seed url instead of the page url
full_urlFromSeed(url, href) ==
    IF netloc(href) = <<>> THEN urljoin(topcall.url, href) ELSE href

\* full_url of an href that urlparse accepts
full_url(url, href) == IF netloc(href) = <<>> THEN urljoin(url, href) ELSE href

\* one iteration of "for link in soup.find_all('a')", or its end
Loop ==
    /\ stack # <<>>
    /\ Head(stack).pc = "links"
    /\ LET f == Head(stack)
           rest == <<[f EXCEPT !.links = Tail(f.links)]>> \o Tail(stack)
       IN
       \/ \* no anchor is left: crawl returns
          /\ f.links = <<>>
          /\ stack' = Tail(stack)
          /\ UNCHANGED <<visited, output>>
       \/ \* "if href:" is false
          /\ f.links # <<>>
          /\ Head(f.links) = <<>>
          /\ stack' = rest
          /\ UNCHANGED <<visited, output>>
       \/ \* urlparse(href) raises: the except clause prints and crawl returns
          /\ f.links # <<>>
          /\ Head(f.links) # <<>>
          /\ urlparseRaises(Head(f.links))
          /\ output' = Append(output, ErrorLine(f.url, "Invalid IPv6 URL"))
          /\ stack' = Tail(stack)
          /\ UNCHANGED visited
       \/ \* full_url.startswith(base) is false
          /\ f.links # <<>>
          /\ Head(f.links) # <<>>
          /\ ~urlparseRaises(Head(f.links))
          /\ ~inScope(full_url(f.url, Head(f.links)), f)
          /\ stack' = rest
          /\ UNCHANGED <<visited, output>>
       \/ \* self.crawl(full_url, base_url=base)
          /\ f.links # <<>>
          /\ Head(f.links) # <<>>
          /\ ~urlparseRaises(Head(f.links))
          /\ inScope(full_url(f.url, Head(f.links)), f)
          /\ enter(full_url(f.url, Head(f.links)), Given(base(f)), rest)
          /\ UNCHANGED output
    /\ UNCHANGED <<index, requested, web, results, topcall, ncalls, printed>>

\* search that also reads self.index[keyword]: the defaultdict makes an entry
SearchInserting(I) ==
    /\ stack = <<>>
    /\ \E keyword \in I.keywords :
          /\ results' = [called |-> TRUE, keyword |-> keyword, urls |-> search(keyword)]
          /\ index' = SetItem(index, keyword, <<>>)
    /\ UNCHANGED <<visited, stack, output, requested, web, topcall, ncalls, printed>>

\* a caller calls crawler.search(keyword)
Search(I) ==
    /\ stack = <<>>
    /\ \E keyword \in I.keywords :
          results' = [called |-> TRUE, keyword |-> keyword, urls |-> search(keyword)]
    /\ UNCHANGED <<visited, index, stack, output, requested, web, topcall, ncalls, printed>>

\* print_results without the "- " line of a result that is the empty string
linesSkipEmpty(r) ==
    IF r # <<>>
    THEN <<<<"Search results:">>>> \o
         SelectSeq([i \in 1..Len(r) |-> <<"- ", r[i]>>], LAMBDA l : l[2] # <<>>)
    ELSE <<<<"No results found.">>>>

\* the lines print_results(results) prints
lines(r) ==
    IF r # <<>>
    THEN <<<<"Search results:">>>> \o [i \in 1..Len(r) |-> <<"- ", r[i]>>]
    ELSE <<<<"No results found.">>>>

\* the print_results calls so far: each printed one header or "No results" line
PrintCalls ==
    Cardinality({i \in 1..Len(output) :
                    output[i] \in {<<"Search results:">>, <<"No results found.">>}})

\* a caller calls crawler.print_results(results), with what the last search
\* returned or with a list of its own
PrintResults(I) ==
    /\ stack = <<>>
    /\ PrintCalls < MaxPrints
    /\ \E r \in I.lists \cup {results.urls} :
          /\ output' = output \o lines(r)
          /\ printed' = [called |-> TRUE, results |-> r]
    /\ UNCHANGED <<visited, index, stack, requested, web, results, topcall, ncalls>>

----------------------------------------------------------------------------
(* Inputs *)

Home == HTTPS \o SLASHES \o <<"example.com">>
About == Home \o <<"/", "about">>
External == HTTPS \o SLASHES \o <<"www.external.com">>

\* an href urlparse rejects: "//["
BadHref == <<"/", "/", "[">>

\* the link structure is varied: two seeds, a scope narrower than the seed
CrawlInputs ==
    [seeds    |-> {Home, About},
     bases    |-> {None, Given(About)},
     hrefs    |-> {<<"/">>, <<"/", "about">>, External, BadHref, <<>>},
     errors   |-> {"Connection timed out"},
     statuses |-> {200},
     texts    |-> {<<"K">>},
     keywords |-> {<<"k">>},
     anchors  |-> MaxAnchors]

\* one seed, whose pages link to themselves and to each other; liveness is
\* checked on it, so its documents hold one anchor fewer
CycleInputs ==
    [seeds    |-> {Home \o <<"/">>},
     bases    |-> {None},
     hrefs    |-> {<<"/">>, <<"/", "about">>, External, BadHref, <<>>},
     errors   |-> {"Connection timed out"},
     statuses |-> {200},
     texts    |-> {<<"K">>},
     keywords |-> {<<"k">>},
     anchors  |-> MaxAnchors - 1]

\* the status code of the responses is varied
StatusInputs ==
    [seeds    |-> {Home},
     bases    |-> {None},
     hrefs    |-> {<<"/", "about">>, External, BadHref, <<>>},
     errors   |-> {"Connection timed out"},
     statuses |-> {200, 404},
     texts    |-> {<<"K">>},
     keywords |-> {<<"k">>},
     anchors  |-> MaxAnchors]

\* the page texts and the keywords are varied
SearchInputs ==
    [seeds    |-> {Home},
     bases    |-> {None},
     hrefs    |-> {<<"/", "about">>, External, BadHref, <<>>},
     errors   |-> {"Connection timed out"},
     statuses |-> {200},
     texts    |-> {<<"K", "w">>, <<"k">>, <<"x">>},
     keywords |-> {<<"k">>, <<"K", "W">>, <<"w", "k">>, <<>>},
     anchors  |-> MaxAnchors]

\* a host whose name begins with the name of the seed's host
Lookalike == Home \o <<".evil.org">>

\* pages link to another host whose URL starts with the seed URL
DomainInputs ==
    [seeds    |-> {Home},
     bases    |-> {None},
     hrefs    |-> {<<"/", "about">>, Lookalike, External, BadHref, <<>>},
     errors   |-> {"Connection timed out"},
     statuses |-> {200},
     texts    |-> {<<"K">>},
     keywords |-> {<<"k">>},
     anchors  |-> MaxAnchors]

Team == Home \o <<"/", "team">>

\* pages on two hosts link to paths: "/about" and "/team" are found on the
\* seed's host and on the other one
ResolveInputs ==
    [seeds    |-> {Home},
     bases    |-> {None},
     hrefs    |-> {<<"/", "about">>, <<"/", "team">>, Lookalike, External,
                   BadHref, <<>>},
     errors   |-> {"Connection timed out"},
     statuses |-> {200},
     texts    |-> {<<"K">>},
     keywords |-> {<<"k">>},
     anchors  |-> MaxAnchors - 1]

\* the lists handed to print_results are varied; a result may be ""
PrintInputs ==
    [seeds    |-> {Home},
     bases    |-> {None},
     hrefs    |-> {<<"/", "about">>, External, BadHref, <<>>},
     errors   |-> {"Connection timed out"},
     statuses |-> {200},
     texts    |-> {<<"K">>, <<"x">>},
     keywords |-> {<<"k">>},
     anchors  |-> MaxAnchors - 1,
     lists    |-> {<<>>, <<<<>>>>, <<About, <<>>, Home>>}]

\* the interpreter's next step inside a crawl call
Step(I) == GetRaises(I) \/ GetReturns(I) \/ Loop

Next(I) ==
    \/ CrawlCall(I)
    \/ GetRaises(I)
    \/ GetReturns(I)
    \/ Loop
    \/ Search(I)

Spec == Init /\ [][Next(CrawlInputs)]_vars

\* a call that has begun runs on: Python executes the next statement
FairSpec == Init /\ [][Next(CycleInputs)]_vars /\ WF_vars(Step(CycleInputs))

SpecStatus == Init /\ [][Next(StatusInputs)]_vars

SpecSearch == Init /\ [][Next(SearchInputs)]_vars

SpecDomain == Init /\ [][Next(DomainInputs)]_vars

SpecResolve == Init /\ [][Next(ResolveInputs)]_vars

\* crawl, search and print_results
SpecPrint == Init /\ [][Next(PrintInputs) \/ PrintResults(PrintInputs)]_vars

----------------------------------------------------------------------------
(* Vocabulary of the properties *)

\* how often u was passed to requests.get
Fetches(u) == Cardinality({i \in 1..Len(requested) : requested[i] = u})

\* the requested URLs that answered with a response / with an exception
Succeeded == {u \in DOMAIN web : ~web[u].raised}
Failed == {u \in DOMAIN web : web[u].raised}

\* the hrefs of page p that resolve to a URL, and the URLs page p links to
GoodHrefs(p) == {h \in Range(web[p].anchors) : h # <<>> /\ ~urlparseRaises(h)}
LinksOf(p) == {full_url(p, h) : h \in GoodHrefs(p)}

\* the scope base of the last top-level call: base_url if given, else the seed
ScopeBase == IF topcall.base_url.given THEN topcall.base_url.val ELSE topcall.url

Last(s) == s[Len(s)]

Idle == stack = <<>>

----------------------------------------------------------------------------
(* C1: whatever crawl calls are made on the instance, no URL is passed to  *)
(* requests.get twice: not when several pages link to it, and not when its *)
(* fetch failed.                                                           *)
AtMostOnceFetch == \A u \in Range(requested) : Fetches(u) = 1

\* two top-level calls are over, and a URL whose fetch failed is linked from
\* two different pages
AtMostOnceFetchWitness ==
    /\ Idle
    /\ ncalls = 2
    /\ \E u \in Failed : \E p, q \in Succeeded :
          p # q /\ u \in LinksOf(p) /\ u \in LinksOf(q)

----------------------------------------------------------------------------
(* C10: when the first crawl call on a fresh instance has returned, every  *)
(* visited URL was fetched exactly once: the number of requests.get calls  *)
(* is the size of self.visited.                                            *)
FetchAccounting ==
    (Idle /\ ncalls = 1) =>
        /\ Len(requested) = Cardinality(visited)
        /\ \A u \in visited : Fetches(u) = 1

\* the cycle scenario: Home links to "/" and "/about", and so does About;
\* three URLs were fetched
FetchAccountingWitness ==
    /\ Idle
    /\ ncalls = 1
    /\ topcall.url = Home
    /\ visited = {Home, Home \o <<"/">>, About}
    /\ web[Home].anchors = <<<<"/">>, <<"/", "about">>>>
    /\ web[About].anchors = <<<<"/">>, <<"/", "about">>>>
    /\ Len(requested) = 3

----------------------------------------------------------------------------
(* C3: scope containment *)

\* the URLs a step adds to self.visited, passes to requests.get, or gives
\* an entry in self.index
Touched ==
    (visited' \ visited)
    \cup (IF requested' # requested THEN {Last(requested')} ELSE {})
    \cup (Range(Keys(index')) \ Range(Keys(index)))

\* C3 as stated: during crawl(url, base_url) no URL that does not start with
\* the scope base (base_url if given, else url) is fetched, added to
\* self.visited or indexed.
ScopeContainmentAll == [][\A u \in Touched : StartsWith(u, ScopeBase')]_vars

\* C3, amended: during crawl(url, base_url) no URL other than the seed url
\* itself is fetched, added to self.visited or indexed unless it starts with
\* the scope base (base_url if given, else url).
ScopeContainment ==
    [][\A u \in Touched : u = topcall'.url \/ StartsWith(u, ScopeBase')]_vars

\* a crawl is over in which a fetched page linked to a URL outside the scope
\* base, and that URL was not touched
ScopeContainmentWitness ==
    /\ Idle
    /\ ncalls = 1
    /\ \E p \in Succeeded : \E u \in LinksOf(p) :
          /\ ~StartsWith(u, ScopeBase)
          /\ u \notin visited
          /\ u \notin Range(requested)
          /\ ~HasKey(index, u)

----------------------------------------------------------------------------
(* C2: termination.  The URLs of the model are finitely many, pages link   *)
(* to themselves and to each other, and every fetch may succeed or fail:   *)
(* every crawl call that has begun returns.                                *)
Termination == (~Idle) ~> Idle

\* a crawl has returned whose pages form a cycle (p links to q and q to p)
\* and hold a self-link
TerminationWitness ==
    /\ Idle
    /\ \E p, q \in Succeeded : p # q /\ q \in LinksOf(p) /\ p \in LinksOf(q)
    /\ \E p \in Succeeded : p \in LinksOf(p)

----------------------------------------------------------------------------
(* C4: reachability *)

\* the links of page p that start with the scope base of the last call
ScopedLinksOf(p) == {u \in LinksOf(p) : StartsWith(u, ScopeBase)}

\* the least set that holds S and every scoped link of its fetched pages
RECURSIVE Closure(_)
Closure(S) ==
    LET more == S \cup UNION {ScopedLinksOf(p) : p \in S \cap Succeeded}
    IN  IF more = S THEN S ELSE Closure(more)

\* C4: when crawl(seed) has returned on a fresh instance, self.visited is
\* exactly the least set that holds the seed and, for each member whose fetch
\* succeeded, every resolved link of its page that starts with the scope base.
ReachabilityExact ==
    (Idle /\ ncalls = 1 /\ ~topcall.base_url.given) =>
        visited = Closure({topcall.url})

----------------------------------------------------------------------------
(* C5: failure isolation *)

\* B was fetched, and indexed unless its own fetch failed
Handled(B) == B \in Range(requested) /\ (B \notin Failed => HasKey(index, B))

\* C5: when a crawl has returned in which page P links in scope to A and to
\* B and the fetch of A failed, B was fetched and indexed all the same, and
\* so were the other links of the pages that link to P.
FailureIsolation ==
    (Idle /\ ncalls = 1) =>
        \A P \in Succeeded :
            (ScopedLinksOf(P) \cap Failed # {}) =>
                /\ \A B \in ScopedLinksOf(P) : Handled(B)
                /\ \A G \in Succeeded :
                      P \in ScopedLinksOf(G) => \A X \in ScopedLinksOf(G) : Handled(X)

----------------------------------------------------------------------------
(* C6: the outcome of a failed fetch *)

\* the lines of sys.stdout that report url u
LinesAbout(u) == {i \in 1..Len(output) : output[i][1] = "Error crawling " /\ output[i][2] = u}

\* C6: the step in which requests.get(u) raises returns to the caller of
\* crawl (the frames below are as they were), adds no URL to self.visited and
\* no entry to self.index, and prints the one line "Error crawling u: e";
\* ever after u is visited, has no index entry and has that one line.
FailedFetchOutcome ==
    /\ [][(requested' # requested /\ web'[Last(requested')].raised) =>
             LET u == Last(requested') IN
             /\ stack' = Tail(stack)
             /\ visited' = visited
             /\ index' = index
             /\ output' = Append(output, ErrorLine(u, web'[u].error))]_vars
    /\ [](\A u \in Failed :
             /\ u \in visited
             /\ ~HasKey(index, u)
             /\ Cardinality(LinesAbout(u)) = 1
             /\ \A i \in LinesAbout(u) : output[i] = ErrorLine(u, web[u].error))

\* a fetch failed below the seed, and the crawl went on to fetch another URL
\* and returned
FailedFetchOutcomeWitness ==
    /\ Idle
    /\ \E i, j \in 1..Len(requested) :
          i < j /\ requested[i] \in Failed /\ requested[j] \in Succeeded
                /\ requested[i] # topcall.url

----------------------------------------------------------------------------
(* C7: a response with a non-2xx status code *)

\* C7: a URL whose response has a non-2xx status gets no index entry and a
\* line of diagnostic output.
NonSuccessStatusIsFailure ==
    \A u \in Succeeded :
        web[u].status \notin 200..299 =>
            ~HasKey(index, u) /\ LinesAbout(u) # {}

----------------------------------------------------------------------------
(* C8: what search returns *)

\* two characters that are equal up to case
SameLetter(a, b) == a = b \/ {a, b} = {"k", "K"} \/ {a, b} = {"w", "W"}

\* keyword occurs in text at offset i, compared case-insensitively
OccursAt(keyword, text, i) ==
    /\ i + Len(keyword) <= Len(text)
    /\ \A j \in 1..Len(keyword) : SameLetter(keyword[j], text[i + j])

\* the index entries whose text holds keyword
Matching(keyword) ==
    {i \in 1..Len(index) : \E o \in 0..Len(index[i].text) : OccursAt(keyword, index[i].text, o)}

\* C8: search(keyword) returns exactly the keys of self.index whose text
\* holds keyword as a substring, both compared case-insensitively: each such
\* key once, no other key, and nothing on an empty index.
SearchExact ==
    results.called =>
        /\ Range(results.urls) = {index[i].url : i \in Matching(results.keyword)}
        /\ Len(results.urls) = Cardinality(Matching(results.keyword))
        /\ (index = <<>> => results.urls = <<>>)

\* a keyword in upper case found one of two indexed pages, whose text has it
\* in mixed case
SearchExactWitness ==
    /\ results.called
    /\ results.keyword = <<"K", "W">>
    /\ Len(index) = 2
    /\ Len(results.urls) = 1
    /\ \E i \in 1..Len(index) :
          index[i].url = results.urls[1] /\ index[i].text = <<"K", "w">>

----------------------------------------------------------------------------
(* C9: the order of what search returns *)

\* the place of u among the requests.get calls
FetchedAt(u) == CHOOSE i \in 1..Len(requested) : requested[i] = u

\* the place of u among the keys of self.index
KeyAt(u) == CHOOSE i \in 1..Len(index) : index[i].url = u

\* C9: of two URLs that search returns, the one that comes first is the one
\* that comes first in self.index, and that is the one the crawl fetched and
\* indexed first.
SearchOrder ==
    results.called =>
        \A i, j \in 1..Len(results.urls) :
            i < j => /\ KeyAt(results.urls[i]) < KeyAt(results.urls[j])
                     /\ FetchedAt(results.urls[i]) < FetchedAt(results.urls[j])

\* search returned three URLs in an order that is not the alphabetical one:
\* the seed, then /about, then /
SearchOrderWitness ==
    /\ results.called
    /\ results.urls = <<Home, About, Home \o <<"/">>>>

----------------------------------------------------------------------------
(* C12: what print_results prints *)

\* a print_results call: output grows while no crawl call is under way
IsPrintStep == stack = <<>> /\ stack' = <<>> /\ Len(output') > Len(output)

\* C12: print_results(results) adds to the output, for a non-empty list, the
\* line "Search results:" and then one line "- r" per element r in the order
\* of the list, also for r = ""; for the empty list the one line "No results
\* found."; it changes nothing of the crawler.
PrintResultsOutput ==
    [][IsPrintStep =>
          LET r == printed'.results
              n == Len(output)
              new == SubSeq(output', n + 1, Len(output'))
          IN  /\ printed'.called
              /\ SubSeq(output', 1, n) = output
              /\ r = <<>> => new = <<<<"No results found.">>>>
              /\ r # <<>> =>
                    /\ Len(new) = Len(r) + 1
                    /\ new[1] = <<"Search results:">>
                    /\ \A i \in 1..Len(r) : new[i + 1] = <<"- ", r[i]>>
              /\ UNCHANGED <<visited, index, requested, web, results, topcall, ncalls>>]_vars

\* a list of three results, the second of them "", was printed after a crawl
\* that indexed a page
PrintResultsOutputWitness ==
    /\ printed.called
    /\ printed.results = <<About, <<>>, Home>>
    /\ index # <<>>
    /\ Len(output) >= 4
    /\ output[Len(output) - 1] = <<"- ", <<>>>>
    /\ Last(output) = <<"- ", Home>>

----------------------------------------------------------------------------
(* C11: the domain of the fetched URLs *)

\* C11: every URL fetched during a crawl has the network location of the
\* seed URL.
SameDomain ==
    ncalls = 1 => \A u \in Range(requested) : netloc(u) = netloc(topcall.url)

----------------------------------------------------------------------------
(* C13: the url is marked visited before it is fetched *)

\* C13: whenever requests.get is called on a URL, that URL is already in
\* self.visited in the state the call is made from, and the frame that calls
\* is the one crawl opened for that URL.
InsertBeforeFetch ==
    [][requested' # requested =>
          /\ stack # <<>>
          /\ requested' = Append(requested, Head(stack).url)
          /\ Head(stack).url \in visited
          /\ Head(stack).url \in visited']_vars

\* a second fetch is about to be made, of a URL already marked and not yet
\* requested, after a first fetch of a marked URL
InsertBeforeFetchWitness ==
    /\ stack # <<>>
    /\ Head(stack).pc = "get"
    /\ Head(stack).url \in visited
    /\ Head(stack).url \notin Range(requested)
    /\ requested # <<>>
    /\ Range(requested) \subseteq visited

----------------------------------------------------------------------------
(* C14: the order of the fetches *)

\* the URLs page p links to within the scope base, in document order
ScopedLinkSeq(p) ==
    LET good == SelectSeq(web[p].anchors,
                          LAMBDA h : h # <<>> /\ ~urlparseRaises(h))
        urls == [i \in 1..Len(good) |-> full_url(p, good[i])]
    IN  SelectSeq(urls, LAMBDA u : StartsWith(u, ScopeBase))

\* the children of u in the link graph: none when its fetch did not succeed
Children(u) == IF u \in Succeeded THEN ScopedLinkSeq(u) ELSE <<>>

\* the pre-order depth-first walk: todo holds the URLs still to be taken, the
\* next one first, and done the URLs taken so far
RECURSIVE PreOrder(_, _)
PreOrder(todo, done) ==
    IF todo = <<>> THEN done
    ELSE IF Head(todo) \in Range(done) THEN PreOrder(Tail(todo), done)
    ELSE PreOrder(Children(Head(todo)) \o Tail(todo), Append(done, Head(todo)))

\* C14: when crawl(seed) has returned on a fresh instance, the sequence of
\* fetches is the pre-order depth-first walk of the in-scope link graph from
\* the seed, the links of a page taken in document order.
PreOrderFetches ==
    (Idle /\ ncalls = 1) => requested = PreOrder(<<topcall.url>>, <<>>)

----------------------------------------------------------------------------
(* C15: the scope base of a traversal *)

\* C15: every crawl call in progress, the top-level one and each recursive
\* one, computes the same scope base: the base_url of the top-level call if
\* that was given, else the seed url; and each recursive call was handed that
\* value as its base_url, never the URL of the page it was made from.
ScopeBaseConstant ==
    \A i \in 1..Len(stack) :
        /\ base(stack[i]) = ScopeBase
        /\ i < Len(stack) => stack[i].base_url = Given(ScopeBase)
        /\ i = Len(stack) => /\ stack[i].url = topcall.url
                             /\ stack[i].base_url = topcall.base_url

\* three calls deep, the innermost on a page other than the seed, under a scope
\* base that is the seed url
ScopeBaseConstantWitness ==
    /\ Len(stack) = 3
    /\ ~topcall.base_url.given
    /\ ScopeBase = Home
    /\ Head(stack).url = About
    /\ stack[2].url # Home
    /\ base(Head(stack)) = Home

----------------------------------------------------------------------------
(* C16: link resolution *)

\* the scheme and network location of page p
Origin(p) == scheme(p) \o SLASHES \o netloc(p)

\* what an href resolves to on page p: itself when it names a network
\* location, else (a path that begins with "/") that path at p's origin
Resolved(p, h) == IF netloc(h) # <<>> THEN h ELSE Origin(p) \o h

\* C16: whenever crawl calls itself for a link, the URL it passes is the href
\* unchanged when the href has a network location, and otherwise the href
\* resolved against the URL of the page it was found on, not against the seed
\* or the scope base: "/about" on https://example.com gives
\* https://example.com/about, "/team" on https://example.com/about gives
\* https://example.com/team.
LinkResolution ==
    [][(stack # <<>> /\ Len(stack') = Len(stack) + 1) =>
          LET p == Head(stack).url
              h == Head(Head(stack).links)
              u == Head(stack').url
          IN  /\ u = Resolved(p, h)
              /\ netloc(h) # <<>> => u = h
              /\ netloc(h) = <<>> => netloc(u) = netloc(p)
              /\ (p = Home /\ h = <<"/", "about">>) => u = About
              /\ (p = About /\ h = <<"/", "team">>) => u = Team]_vars

\* "/team" found on a page of the other host was followed to that host, after
\* "/about" on the seed page was followed to the seed's host
LinkResolutionWitness ==
    /\ Len(stack) = 3
    /\ stack[2].url = Lookalike
    /\ Head(stack).url = Lookalike \o <<"/", "team">>
    /\ About \in visited
    /\ Lookalike \in Range(web[Home].anchors)

----------------------------------------------------------------------------
(* C17: what the index holds *)

----------------------------------------------------------------------------
(* C18: the frame of search *)

\* C18: a call of search leaves self.visited and self.index (its keys, their
\* order and the texts) as they were, fetches nothing and prints nothing; and
\* self.visited, self.index and the fetch log change only in steps of crawl.
SearchFrame ==
    [][/\ (results' # results /\ results'.called) =>
             UNCHANGED <<visited, index, requested, web, output, stack>>
       /\ (visited' # visited \/ index' # index \/ requested' # requested) =>
             (ncalls' = ncalls + 1 \/ stack # <<>>)]_vars

\* search was called with a keyword in another case than the text, on an
\* index of two pages, and returned both
SearchFrameWitness ==
    /\ results.called
    /\ results.keyword = <<"K", "W">>
    /\ Len(results.urls) = 2
    /\ Len(index) = 2
    /\ Cardinality(visited) >= 2

----------------------------------------------------------------------------
(* C19: crawl on a URL that is already visited *)

\* C19: a top-level call of crawl on a URL that is in self.visited, whatever
\* its base_url and whether the fetch of the URL had succeeded or failed,
\* returns at once: no fetch is made, nothing is printed, and self.visited and
\* self.index stay as they were.
VisitedCrawlNoOp ==
    [][(ncalls' = ncalls + 1 /\ topcall'.url \in visited) =>
          /\ UNCHANGED <<visited, index, requested, web, output>>
          /\ stack' = <<>>]_vars

\* the second call was made, with a base_url, on a URL that the first crawl
\* found as a link and failed to fetch; it changed nothing
VisitedCrawlNoOpWitness ==
    /\ ncalls = 2
    /\ Idle
    /\ topcall = [url |-> About, base_url |-> Given(About)]
    /\ requested = <<Home, About>>
    /\ About \in Failed
    /\ Keys(index) = <<Home>>
    /\ Len(output) = 1

----------------------------------------------------------------------------
(* C20: a second crawl on the same instance *)

\* C20: when a second crawl, from another seed than the first, has returned
\* on the instance, every URL that starts with its scope base and can be
\* reached from its seed through the links of successfully fetched pages is
\* in self.visited.
ReusedReachability ==
    (Idle /\ ncalls = 2 /\ requested # <<>> /\ requested[1] # topcall.url) =>
        Closure({topcall.url}) \subseteq visited

====
